---------------------------- MODULE Spec2Model ----------------------------
(***************************************************************************)
(* ChatBot of RAG-GPT/src/utils/chatbot.py: respond() and the reference    *)
(* formatter clean_references().                                           *)
(*                                                                         *)
(* Text is a sequence of Unicode code points (a Python str), bytes are a   *)
(* sequence of numbers in 0..255.  A conversion that raises yields a       *)
(* sequence holding the marker -1.                                         *)
(***************************************************************************)
EXTENDS Integers, Sequences, FiniteSets, TLC

(***************************************************************************)
(* Text helpers                                                            *)
(***************************************************************************)

\* s[i..] starts with pat
StartsAt(s, i, pat) ==
    /\ i >= 1
    /\ i + Len(pat) - 1 <= Len(s)
    /\ \A k \in 1..Len(pat) : s[i + k - 1] = pat[k]

\* pat occurs in s
HasSub(s, pat) == \E i \in 1..Len(s) : StartsAt(s, i, pat)

\* s[i..] (empty when i is past the end)
Tail_(s, i) == IF i > Len(s) THEN <<>> ELSE SubSeq(s, i, Len(s))

\* the conversion raised
Failed(s) == \E i \in 1..Len(s) : s[i] = -1

\* concatenation of a sequence of texts
RECURSIVE Concat(_)
Concat(ss) == IF ss = <<>> THEN <<>> ELSE Head(ss) \o Concat(Tail(ss))

\* str.isspace() of one character, which is also \s of a str pattern
IsSpace(c) ==
    \/ c \in 9..13
    \/ c \in 28..32
    \/ c \in {133, 160, 5760, 8232, 8233, 8239, 8287, 12288}
    \/ c \in 8192..8202

\* first index >= i of s that is no whitespace (Len(s)+1 if none)
RECURSIVE SkipSpace(_, _)
SkipSpace(s, i) ==
    IF i <= Len(s) /\ IsSpace(s[i]) THEN SkipSpace(s, i + 1) ELSE i

\* re.sub of a literal, non-empty pattern: leftmost, non-overlapping
RECURSIVE SubFrom(_, _, _, _)
SubFrom(s, pat, rep, i) ==
    IF i > Len(s) THEN <<>>
    ELSE IF StartsAt(s, i, pat) THEN rep \o SubFrom(s, pat, rep, i + Len(pat))
    ELSE <<s[i]>> \o SubFrom(s, pat, rep, i + 1)

re_sub_literal(pat, rep, s) == SubFrom(s, pat, rep, 1)

\* value of a hexadecimal digit, -1 for any other character
HexVal(c) ==
    IF c \in 48..57 THEN c - 48
    ELSE IF c \in 65..70 THEN c - 55
    ELSE IF c \in 97..102 THEN c - 87
    ELSE -1

\* number of hexadecimal digits of s from i on, at most max
RECURSIVE HexRun(_, _, _)
HexRun(s, i, max) ==
    IF max = 0 \/ i > Len(s) \/ HexVal(s[i]) < 0 THEN 0
    ELSE 1 + HexRun(s, i + 1, max - 1)

\* value of the n digits of s from i on, in the given base
RECURSIVE DigitsVal(_, _, _, _)
DigitsVal(s, i, n, base) ==
    IF n = 0 THEN 0
    ELSE DigitsVal(s, i, n - 1, base) * base + HexVal(s[i + n - 1])

\* str() of a non-negative int
RECURSIVE int_str(_)
int_str(n) ==
    IF n < 10 THEN <<48 + n>> ELSE int_str(n \div 10) \o <<48 + (n % 10)>>

(***************************************************************************)
(* Line 103: bytes(content, "utf-8")                                       *)
(***************************************************************************)
utf8_of(c) ==
    IF c < 128 THEN <<c>>
    ELSE IF c < 2048 THEN <<192 + (c \div 64), 128 + (c % 64)>>
    ELSE IF c \in 55296..57343 THEN <<-1>>   \* a lone surrogate: UnicodeEncodeError
    ELSE IF c < 65536 THEN
        <<224 + (c \div 4096), 128 + ((c \div 64) % 64), 128 + (c % 64)>>
    ELSE <<240 + (c \div 262144), 128 + ((c \div 4096) % 64),
           128 + ((c \div 64) % 64), 128 + (c % 64)>>

RECURSIVE utf8_encode(_)
utf8_encode(s) ==
    IF s = <<>> THEN <<>> ELSE utf8_of(Head(s)) \o utf8_encode(Tail(s))

(***************************************************************************)
(* Line 103: .decode("unicode_escape").  Every byte is the character of    *)
(* the same number (Latin-1), except after a backslash.  The name table of *)
(* \N{...} is not modelled: \N raises here, and no input of the model      *)
(* holds it.                                                               *)
(***************************************************************************)
\* number of octal digits of b from i on, at most max
RECURSIVE OctRun(_, _, _)
OctRun(b, i, max) ==
    IF max = 0 \/ i > Len(b) \/ b[i] \notin 48..55 THEN 0
    ELSE 1 + OctRun(b, i + 1, max - 1)

\* the escape \x, \u, \U with its n digits required
HexEscape(b, i, n) ==
    IF HexRun(b, i, n) < n THEN <<-1>>            \* truncated escape
    \* \U above U+10FFFF: "illegal Unicode character" (the three leading
    \* digits are looked at first, so that the value stays a small number)
    ELSE IF n = 8 /\ DigitsVal(b, i, 3, 16) > 1 THEN <<-1>>
    ELSE IF n = 8 /\ DigitsVal(b, i, 8, 16) > 1114111 THEN <<-1>>
    ELSE <<DigitsVal(b, i, n, 16)>>

RECURSIVE unicode_escape_from(_, _)
unicode_escape_from(b, i) ==
    IF i > Len(b) THEN <<>>
    ELSE IF b[i] = -1 THEN <<-1>>
    ELSE IF b[i] # 92 THEN <<b[i]>> \o unicode_escape_from(b, i + 1)
    ELSE IF i = Len(b) THEN <<-1>>                \* "\ at end of string"
    ELSE LET c == b[i + 1] IN
        CASE c = 10 -> unicode_escape_from(b, i + 2)
          [] c \in {92, 39, 34} -> <<c>> \o unicode_escape_from(b, i + 2)
          [] c = 97  -> <<7>>  \o unicode_escape_from(b, i + 2)
          [] c = 98  -> <<8>>  \o unicode_escape_from(b, i + 2)
          [] c = 102 -> <<12>> \o unicode_escape_from(b, i + 2)
          [] c = 110 -> <<10>> \o unicode_escape_from(b, i + 2)
          [] c = 114 -> <<13>> \o unicode_escape_from(b, i + 2)
          [] c = 116 -> <<9>>  \o unicode_escape_from(b, i + 2)
          [] c = 118 -> <<11>> \o unicode_escape_from(b, i + 2)
          [] c \in 48..55 ->
                LET n == OctRun(b, i + 1, 3) IN
                <<DigitsVal(b, i + 1, n, 8)>> \o unicode_escape_from(b, i + 1 + n)
          [] c = 120 -> LET h == HexEscape(b, i + 2, 2) IN
                IF Failed(h) THEN h ELSE h \o unicode_escape_from(b, i + 4)
          [] c = 117 -> LET h == HexEscape(b, i + 2, 4) IN
                IF Failed(h) THEN h ELSE h \o unicode_escape_from(b, i + 6)
          [] c = 85  -> LET h == HexEscape(b, i + 2, 8) IN
                IF Failed(h) THEN h ELSE h \o unicode_escape_from(b, i + 10)
          [] c = 78  -> <<-1>>
          [] OTHER   -> <<92>> \o unicode_escape_from(b, i + 1)

\* line 103 as a whole
decode_escapes(content) == unicode_escape_from(utf8_encode(content), 1)

(***************************************************************************)
(* Line 106: re.sub(r'\\n', '\n', content)                                 *)
(***************************************************************************)
sub_escaped_newlines(content) == re_sub_literal(<<92, 110>>, <<10>>, content)

(***************************************************************************)
(* Line 108: re.sub(r'\s*<EOS>\s*<pad>\s*', ' ', content)                  *)
(***************************************************************************)
EOS == <<60, 69, 79, 83, 62>>         \* "<EOS>"
PAD == <<60, 112, 97, 100, 62>>       \* "<pad>"

\* 0 if the pattern does not match at i, else the index after the match
TokenMatchEnd(s, i) ==
    LET q == SkipSpace(s, i) IN
    IF ~StartsAt(s, q, EOS) THEN 0
    ELSE LET r == SkipSpace(s, q + Len(EOS)) IN
         IF ~StartsAt(s, r, PAD) THEN 0 ELSE SkipSpace(s, r + Len(PAD))

RECURSIVE SubTokensFrom(_, _)
SubTokensFrom(s, i) ==
    IF i > Len(s) THEN <<>>
    ELSE LET e == TokenMatchEnd(s, i) IN
         IF e > 0 THEN <<32>> \o SubTokensFrom(s, e)
         ELSE <<s[i]>> \o SubTokensFrom(s, i + 1)

sub_special_tokens(content) == SubTokensFrom(content, 1)

(***************************************************************************)
(* Line 110: re.sub(r'\s+', ' ', content).strip()                          *)
(***************************************************************************)
RECURSIVE SubSpacesFrom(_, _)
SubSpacesFrom(s, i) ==
    IF i > Len(s) THEN <<>>
    ELSE IF IsSpace(s[i]) THEN <<32>> \o SubSpacesFrom(s, SkipSpace(s, i))
    ELSE <<s[i]>> \o SubSpacesFrom(s, i + 1)

\* last index <= j of s that is no whitespace (0 if none)
RECURSIVE SkipSpaceBack(_, _)
SkipSpaceBack(s, j) ==
    IF j >= 1 /\ IsSpace(s[j]) THEN SkipSpaceBack(s, j - 1) ELSE j

strip(s) ==
    LET i == SkipSpace(s, 1)
        j == SkipSpaceBack(s, Len(s))
    IN  IF i > j THEN <<>> ELSE SubSeq(s, i, j)

collapse_spaces(content) == strip(SubSpacesFrom(content, 1))

(***************************************************************************)
(* Line 113: html.unescape(content).  _charref is                          *)
(*   &(#[0-9]+;?|#[xX][0-9a-fA-F]+;?|[^\t\n\f <&#;]{1,32};?)               *)
(* and html5 is the table of named references, of which the model keeps    *)
(* the names its inputs can spell.                                         *)
(***************************************************************************)
\* number of decimal digits of s from i on
RECURSIVE DecRun(_, _)
DecRun(s, i) ==
    IF i > Len(s) \/ s[i] \notin 48..57 THEN 0 ELSE 1 + DecRun(s, i + 1)

\* number of characters of a reference name from i on, at most max
RECURSIVE NameRun(_, _, _)
NameRun(s, i, max) ==
    IF max = 0 \/ i > Len(s) \/ s[i] \in {9, 10, 12, 32, 60, 38, 35, 59} THEN 0
    ELSE 1 + NameRun(s, i + 1, max - 1)

\* 1 if s[i] is ';', else 0
Semi(s, i) == IF i <= Len(s) /\ s[i] = 59 THEN 1 ELSE 0

\* s[i] is '&': the length of the group _charref matches after it, 0 if none
CharrefLen(s, i) ==
    LET j == i + 1 IN
    IF j > Len(s) THEN 0
    ELSE IF s[j] = 35 THEN
        LET d == DecRun(s, j + 1)
            h == HexRun(s, j + 2, Len(s))
        IN  IF d > 0 THEN 1 + d + Semi(s, j + 1 + d)
            ELSE IF j + 1 <= Len(s) /\ s[j + 1] \in {120, 88} /\ h > 0
                THEN 2 + h + Semi(s, j + 2 + h)
            ELSE 0
    ELSE LET n == NameRun(s, j, 32) IN
         IF n = 0 THEN 0 ELSE n + Semi(s, j + n)

\* int() of the n digits from i on; every value above 0x10FFFF reads 0x110000
RECURSIVE NumVal(_, _, _, _)
NumVal(s, i, n, base) ==
    IF n = 0 THEN 0
    ELSE LET v == NumVal(s, i, n - 1, base) * base + HexVal(s[i + n - 1])
         IN  IF v > 1114111 THEN 1114112 ELSE v

\* _invalid_charrefs for 0x80..0x9f (Windows-1252)
Cp1252 ==
    <<8364, 129, 8218, 402, 8222, 8230, 8224, 8225, 710, 8240, 352, 8249, 338,
      141, 381, 143, 144, 8216, 8217, 8220, 8221, 8226, 8211, 8212, 732, 8482,
      353, 8250, 339, 157, 382, 376>>

\* _invalid_codepoints
InvalidCodepoint(n) ==
    \/ n \in 1..8
    \/ n = 11
    \/ n \in 14..31
    \/ n \in 127..159
    \/ n \in 64976..65007
    \/ n % 65536 \in {65534, 65535}

\* the numeric branch of _replace_charref
NumericCharref(num) ==
    IF num = 0 THEN <<65533>>
    ELSE IF num = 13 THEN <<13>>
    ELSE IF num \in 128..159 THEN <<Cp1252[num - 127]>>
    ELSE IF num \in 55296..57343 \/ num > 1114111 THEN <<65533>>
    ELSE IF InvalidCodepoint(num) THEN <<>>
    ELSE <<num>>

\* html5[name], <<>> when name is no key of the table
Html5(name) ==
    CASE name \in {<<97, 109, 112, 59>>, <<97, 109, 112>>} -> <<38>>       \* amp; amp
      [] name \in {<<108, 116, 59>>, <<108, 116>>} -> <<60>>               \* lt; lt
      [] name \in {<<103, 116, 59>>, <<103, 116>>} -> <<62>>               \* gt; gt
      [] name \in {<<113, 117, 111, 116, 59>>, <<113, 117, 111, 116>>} -> <<34>>   \* quot; quot
      [] name \in {<<110, 98, 115, 112, 59>>, <<110, 98, 115, 112>>} -> <<160>>    \* nbsp; nbsp
      [] name = <<101, 117, 114, 111, 59>> -> <<8364>>                     \* euro;
      [] name = <<105, 115, 105, 110, 59>> -> <<8712>>                     \* isin;
      [] OTHER -> <<>>

\* the longest proper prefix of g, of x >= 2 characters, that html5 holds
RECURSIVE LongestName(_, _)
LongestName(g, x) ==
    IF x < 2 THEN 0
    ELSE IF Html5(SubSeq(g, 1, x)) # <<>> THEN x
    ELSE LongestName(g, x - 1)

\* _replace_charref of the group g
replace_charref(g) ==
    IF g[1] = 35 THEN
        LET hex == g[2] \in {120, 88}
            from == IF hex THEN 3 ELSE 2
            n == Len(g) - (from - 1) - Semi(g, Len(g))
        IN  NumericCharref(NumVal(g, from, n, IF hex THEN 16 ELSE 10))
    ELSE IF Html5(g) # <<>> THEN Html5(g)
    ELSE LET x == LongestName(g, Len(g) - 1) IN
         IF x > 0 THEN Html5(SubSeq(g, 1, x)) \o Tail_(g, x + 1)
         ELSE <<38>> \o g

RECURSIVE UnescapeFrom(_, _)
UnescapeFrom(s, i) ==
    IF i > Len(s) THEN <<>>
    ELSE LET n == IF s[i] = 38 THEN CharrefLen(s, i) ELSE 0 IN
         IF n > 0 THEN replace_charref(SubSeq(s, i + 1, i + n)) \o UnescapeFrom(s, i + 1 + n)
         ELSE <<s[i]>> \o UnescapeFrom(s, i + 1)

html_unescape(content) == UnescapeFrom(content, 1)

(***************************************************************************)
(* Line 116: content.encode('latin1').decode('utf-8', 'ignore')            *)
(***************************************************************************)
\* str.encode('latin1'): strict, a character above U+00FF raises
latin1_encode(s) ==
    IF \E i \in 1..Len(s) : s[i] > 255 THEN <<-1>> ELSE s

\* b[i] is a byte of lo..hi
ByteIn(b, i, lo, hi) == i <= Len(b) /\ b[i] \in lo..hi

\* bytes.decode('utf-8', 'ignore'): an ill-formed sequence is dropped up to
\* the byte that breaks it, and decoding goes on from that byte
RECURSIVE utf8_decode_from(_, _)
utf8_decode_from(b, i) ==
    IF i > Len(b) THEN <<>>
    ELSE LET c == b[i] IN
        IF c < 128 THEN <<c>> \o utf8_decode_from(b, i + 1)
        ELSE IF c \in 194..223 THEN
            IF ~ByteIn(b, i + 1, 128, 191) THEN utf8_decode_from(b, i + 1)
            ELSE <<(c - 192) * 64 + (b[i + 1] - 128)>> \o utf8_decode_from(b, i + 2)
        ELSE IF c \in 224..239 THEN
            LET lo == IF c = 224 THEN 160 ELSE 128
                hi == IF c = 237 THEN 159 ELSE 191
            IN  IF ~ByteIn(b, i + 1, lo, hi) THEN utf8_decode_from(b, i + 1)
                ELSE IF ~ByteIn(b, i + 2, 128, 191) THEN utf8_decode_from(b, i + 2)
                ELSE <<(c - 224) * 4096 + (b[i + 1] - 128) * 64 + (b[i + 2] - 128)>>
                     \o utf8_decode_from(b, i + 3)
        ELSE IF c \in 240..244 THEN
            LET lo == IF c = 240 THEN 144 ELSE 128
                hi == IF c = 244 THEN 143 ELSE 191
            IN  IF ~ByteIn(b, i + 1, lo, hi) THEN utf8_decode_from(b, i + 1)
                ELSE IF ~ByteIn(b, i + 2, 128, 191) THEN utf8_decode_from(b, i + 2)
                ELSE IF ~ByteIn(b, i + 3, 128, 191) THEN utf8_decode_from(b, i + 3)
                ELSE <<(c - 240) * 262144 + (b[i + 1] - 128) * 4096
                       + (b[i + 2] - 128) * 64 + (b[i + 3] - 128)>>
                     \o utf8_decode_from(b, i + 4)
        ELSE utf8_decode_from(b, i + 1)

\* line 116 as a whole
redecode(content) ==
    LET b == latin1_encode(content) IN
    IF Failed(b) THEN b ELSE utf8_decode_from(b, 1)

\* a table without the two element-of entries of lines 121 and 124
repair_table_without_isin(content) ==
    LET c1 == re_sub_literal(<<226, 128, 147>>, <<45>>, content)
        c3 == re_sub_literal(<<195, 151>>, <<215>>, c1)
        c4 == re_sub_literal(<<239, 172, 129>>, <<102, 105>>, c3)
        c6 == re_sub_literal(<<194, 183>>, <<183>>, c4)
    IN  re_sub_literal(<<239, 172, 130>>, <<102, 108>>, c6)

(***************************************************************************)
(* Lines 120-126: the seven literal replacements, in order                 *)
(***************************************************************************)
repair_table(content) ==
    LET c1 == re_sub_literal(<<226, 128, 147>>, <<45>>, content)        \* -> '-'
        c2 == re_sub_literal(<<226, 136, 136>>, <<8712>>, c1)          \* -> element-of
        c3 == re_sub_literal(<<195, 151>>, <<215>>, c2)                \* -> multiplication sign
        c4 == re_sub_literal(<<239, 172, 129>>, <<102, 105>>, c3)      \* -> 'fi'
        c5 == re_sub_literal(<<226, 136, 136>>, <<8712>>, c4)          \* -> element-of
        c6 == re_sub_literal(<<194, 183>>, <<183>>, c5)                \* -> middle dot
    IN  re_sub_literal(<<239, 172, 130>>, <<102, 108>>, c6)            \* -> 'fl'

(***************************************************************************)
(* Lines 128, 132: os.path.basename (posixpath): p[p.rfind('/') + 1:]      *)
(***************************************************************************)
\* the last index of '/' in p, 0 if none
RECURSIVE rfind_sep(_, _)
rfind_sep(p, i) ==
    IF i = 0 THEN 0 ELSE IF p[i] = 47 THEN i ELSE rfind_sep(p, i - 1)

\* a path cut after its first '/' instead of its last
after_first_sep(p) ==
    LET S == {i \in 1..Len(p) : p[i] = 47} IN
    IF S = {} THEN p ELSE Tail_(p, (CHOOSE i \in S : \A k \in S : i <= k) + 1)

basename(p) == Tail_(p, rfind_sep(p, Len(p)) + 1)

(***************************************************************************)
(* Lines 97-98: re.match(r"page_content=(.*?)( metadata=\{.*\})", doc)     *)
(* '.' matches every character but the newline; (.*?) is lazy, so the      *)
(* first place where the rest of the pattern matches is taken; the .* of   *)
(* the second group is greedy, so it runs to the last '}' of that line.    *)
(***************************************************************************)
PAGE_CONTENT == <<112, 97, 103, 101, 95, 99, 111, 110, 116, 101, 110, 116, 61>>   \* "page_content="
METADATA_OPEN == <<32, 109, 101, 116, 97, 100, 97, 116, 97, 61, 123>>             \* " metadata={"

\* no newline in s[a..b]
NoNewline(s, a, b) == \A k \in a..b : s[k] # 10

\* the indices of a '}' that can close the second group opened at i
Closers(doc, i) ==
    {j \in (i + Len(METADATA_OPEN))..Len(doc) :
        doc[j] = 125 /\ NoNewline(doc, i + Len(METADATA_OPEN), j - 1)}

\* the indices at which the second group can start
Openers(doc) ==
    {i \in (Len(PAGE_CONTENT) + 1)..Len(doc) :
        /\ StartsAt(doc, i, METADATA_OPEN)
        /\ NoNewline(doc, Len(PAGE_CONTENT) + 1, i - 1)
        /\ Closers(doc, i) # {}}

Min(S) == CHOOSE x \in S : \A y \in S : x <= y
Max(S) == CHOOSE x \in S : \A y \in S : x >= y

\* re.match(...) is not None
re_match(doc) == StartsAt(doc, 1, PAGE_CONTENT) /\ Openers(doc) # {}

\* the groups of a pattern whose first group is greedy: (.*) for (.*?)
match_groups_greedy(doc) ==
    LET i == Max(Openers(doc))
        j == Max(Closers(doc, i))
    IN  <<SubSeq(doc, Len(PAGE_CONTENT) + 1, i - 1), SubSeq(doc, i, j)>>

\* .groups() of the match
match_groups(doc) ==
    LET i == Min(Openers(doc))
        j == Max(Closers(doc, i))
    IN  <<SubSeq(doc, Len(PAGE_CONTENT) + 1, i - 1), SubSeq(doc, i, j)>>

\* line 99: metadata.split('=', 1)[1]
RECURSIVE find_eq(_, _)
find_eq(s, i) == IF i > Len(s) THEN 0 ELSE IF s[i] = 61 THEN i ELSE find_eq(s, i + 1)

split_eq(metadata) == Tail_(metadata, find_eq(metadata, 1) + 1)

(***************************************************************************)
(* Line 100: ast.literal_eval(metadata), for the literals the inputs of    *)
(* the model are written in: a dict display whose keys are 'single-quoted' *)
(* strings without backslash or decimal ints and whose values are those or *)
(* dict displays.  A value is [t |-> "str", v |-> text],                   *)
(* [t |-> "int", v |-> n] or [t |-> "dict", v |-> <<<<key, value>>, ...>>].*)
(***************************************************************************)
Bad == [ok |-> FALSE]

\* first index >= i of s that is neither space nor tab
RECURSIVE SkipBlank(_, _)
SkipBlank(s, i) ==
    IF i <= Len(s) /\ s[i] \in {32, 9} THEN SkipBlank(s, i + 1) ELSE i

\* the index of the quote closing the string opened before i, 0 if none
RECURSIVE find_quote(_, _)
find_quote(s, i) ==
    IF i > Len(s) \/ s[i] \in {10, 92} THEN 0
    ELSE IF s[i] = 39 THEN i
    ELSE find_quote(s, i + 1)

parse_string(s, i) ==
    LET j == find_quote(s, i + 1) IN
    IF j = 0 THEN Bad
    ELSE [ok |-> TRUE, val |-> [t |-> "str", v |-> SubSeq(s, i + 1, j - 1)], next |-> j + 1]

\* a decimal integer: "0", "00" and "12" are, "012" is not
parse_int(s, i) ==
    LET n == DecRun(s, i)
        v == NumVal(s, i, n, 10)
    IN  IF n > 1 /\ s[i] = 48 /\ v # 0 THEN Bad
        ELSE [ok |-> TRUE, val |-> [t |-> "int", v |-> v], next |-> i + n]

RECURSIVE parse_value(_, _), parse_items(_, _, _)
parse_value(s, i) ==
    IF i > Len(s) THEN Bad
    ELSE IF s[i] = 39 THEN parse_string(s, i)
    ELSE IF s[i] \in 48..57 THEN parse_int(s, i)
    ELSE IF s[i] = 123 THEN
        LET k == SkipBlank(s, i + 1) IN
        IF k <= Len(s) /\ s[k] = 125
            THEN [ok |-> TRUE, val |-> [t |-> "dict", v |-> <<>>], next |-> k + 1]
        ELSE parse_items(s, k, <<>>)
    ELSE Bad

\* the items of a dict display from the key at i on; acc holds those read
parse_items(s, i, acc) ==
    LET k == parse_value(s, i) IN
    IF ~k.ok THEN Bad
    ELSE IF k.val.t = "dict" THEN Bad              \* TypeError: unhashable type
    ELSE LET c == SkipBlank(s, k.next) IN
    IF c > Len(s) \/ s[c] # 58 THEN Bad
    ELSE LET v == parse_value(s, SkipBlank(s, c + 1)) IN
    IF ~v.ok THEN Bad
    ELSE LET e == SkipBlank(s, v.next)
             all == Append(acc, <<k.val, v.val>>)
             done(n) == [ok |-> TRUE, val |-> [t |-> "dict", v |-> all], next |-> n]
    IN  IF e > Len(s) THEN Bad
        ELSE IF s[e] = 125 THEN done(e + 1)
        ELSE IF s[e] # 44 THEN Bad
        ELSE LET n == SkipBlank(s, e + 1) IN
             IF n <= Len(s) /\ s[n] = 125 THEN done(n + 1)
             ELSE parse_items(s, n, all)

\* ast.literal_eval(text): [ok |-> FALSE] when it raises
literal_eval(text) ==
    LET r == parse_value(text, SkipBlank(text, 1)) IN
    IF r.ok /\ SkipBlank(text, r.next) > Len(text) THEN r ELSE Bad

\* key in d, and d[key] (the last item written under the key)
IsKey(k, name) == k.t = "str" /\ k.v = name
has_key(d, name) == \E i \in 1..Len(d.v) : IsKey(d.v[i][1], name)
get_item(d, name) ==
    d.v[Max({i \in 1..Len(d.v) : IsKey(d.v[i][1], name)})][2]

SOURCE == <<115, 111, 117, 114, 99, 101>>      \* "source"
PAGE == <<112, 97, 103, 101>>                  \* "page"

(***************************************************************************)
(* Lines 91, 128-135: the block of one record                              *)
(***************************************************************************)
server_url ==        \* "http://localhost:8000"
    <<104, 116, 116, 112, 58, 47, 47, 108, 111, 99, 97, 108, 104, 111, 115, 116,
      58, 56, 48, 48, 48>>
REFERENCE == <<82, 101, 102, 101, 114, 101, 110, 99, 101, 32>>                   \* "Reference "
FILENAME == <<70, 105, 108, 101, 110, 97, 109, 101, 58, 32>>                     \* "Filename: "
BAR == <<32, 124, 32>>                                                           \* " | "
PAGE_NUMBER == <<80, 97, 103, 101, 32, 110, 117, 109, 98, 101, 114, 58, 32>>     \* "Page number: "
VIEW_PDF == <<91, 86, 105, 101, 119, 32, 80, 68, 70, 93, 40>>                    \* "[View PDF]("

\* str(v) of a str or of an int
to_str(v) == IF v.t = "int" THEN int_str(v.v) ELSE v.v

\* line 128
pdf_url_of(source) == server_url \o <<47>> \o basename(source)

\* lines 131-134: what one iteration appends to markdown_documents
block(n, text, source, page) ==
    REFERENCE \o int_str(n) \o <<58, 10>> \o text \o <<10, 10>>
    \o FILENAME \o basename(source) \o BAR
    \o PAGE_NUMBER \o to_str(page) \o BAR
    \o VIEW_PDF \o pdf_url_of(source) \o <<41>> \o <<10, 10>>

(***************************************************************************)
(* Lines 44-48: the prompt                                                 *)
(***************************************************************************)
RETRIEVED ==         \* "# Retrieved contents:\n"
    <<35, 32, 82, 101, 116, 114, 105, 101, 118, 101, 100, 32, 99, 111, 110, 116,
      101, 110, 116, 115, 58, 10>>
QUESTION ==          \* "# User new question:\n"
    <<35, 32, 85, 115, 101, 114, 32, 110, 101, 119, 32, 113, 117, 101, 115, 116,
      105, 111, 110, 58, 10>>

prompt_of(refs, msg) == (RETRIEVED \o refs) \o <<10, 10>> \o (QUESTION \o msg)

(***************************************************************************)
(* The state.  pc names the statement that runs next; entry names the      *)
(* method the caller invoked (respond, or clean_references on its own).    *)
(***************************************************************************)
VARIABLES
    pc,                 \* position in the running call, "idle" between calls
    entry,              \* "respond" or "clean_references"
    calls,              \* number of respond calls started
    chatbot,            \* the caller's chat history: <<message, answer>> pairs
    message,            \* respond: the user's query
    data_type,          \* respond: "Preprocessed", "Uploaded" or anything else
    docs,               \* the records, each given by its text str(x)
    documents,          \* clean_references: the texts with "\n\n" appended
    idx,                \* clean_references: number of the record in the loop
    content,            \* clean_references: local
    metadata,           \* clean_references: local
    metadata_dict,      \* clean_references: local
    counter,            \* clean_references: local
    markdown_documents, \* clean_references: local
    references,         \* respond: local
    prompt,             \* respond: local
    response,           \* respond: the answer of the completion
    requests,           \* the prompts the Completion Service received in this call
    outcome             \* how the last call ended

clean_locals == <<documents, idx, content, metadata, metadata_dict, counter, markdown_documents>>
respond_locals == <<message, data_type, references, prompt, response>>
vars == <<pc, entry, calls, chatbot, docs, clean_locals, respond_locals, requests, outcome>>

None == <<>>
NoDict == [t |-> "dict", v |-> <<>>]
Running == [kind |-> "none"]
Returned(v) == [kind |-> "returned", value |-> v]
Raised(e, at) == [kind |-> "raised", exc |-> e, at |-> at]

\* the frame of clean_references is gone
DropCleanLocals ==
    /\ documents' = <<>>
    /\ idx' = 0
    /\ content' = None
    /\ metadata' = None
    /\ metadata_dict' = NoDict
    /\ counter' = 0
    /\ markdown_documents' = None

\* the frame of respond is gone
DropRespondLocals ==
    /\ message' = None
    /\ data_type' = "Preprocessed"
    /\ references' = None
    /\ prompt' = None
    /\ response' = None

\* the exception e of the statement at pc leaves the running call: nothing
\* is returned
Raise(e) ==
    /\ pc' = "idle"
    /\ outcome' = Raised(e, pc)
    /\ DropCleanLocals
    /\ DropRespondLocals
    /\ UNCHANGED <<entry, calls, chatbot, docs, requests>>

\* the next statement of clean_references, with content changed
Step(next, text) ==
    /\ pc' = next
    /\ content' = text
    /\ UNCHANGED <<entry, calls, chatbot, docs, documents, idx, metadata, metadata_dict,
                   counter, markdown_documents, respond_locals, requests, outcome>>

\* a statement of clean_references that rewrites content, or raises
Rewrite(at, next, text, e) ==
    /\ pc = at
    /\ IF Failed(text) THEN Raise(e) ELSE Step(next, text)

(***************************************************************************)
(* clean_references, lines 91-137                                          *)
(***************************************************************************)
\* lines 91-94
CleanEntry ==
    /\ pc = "clean_entry"
    /\ documents' = [i \in 1..Len(docs) |-> docs[i] \o <<10, 10>>]
    /\ markdown_documents' = <<>>
    /\ counter' = 1
    /\ idx' = 0
    /\ pc' = "for"
    /\ UNCHANGED <<entry, calls, chatbot, docs, content, metadata, metadata_dict,
                   respond_locals, requests, outcome>>

\* a loop that passes over a record the pattern does not match
MatchSkipsMalformed ==
    /\ pc = "for"
    /\ idx < Len(documents)
    /\ LET doc == documents[idx + 1] IN
       IF ~re_match(doc)
       THEN /\ idx' = idx + 1
            /\ UNCHANGED <<pc, entry, calls, chatbot, docs, documents, content, metadata,
                           metadata_dict, counter, markdown_documents, respond_locals,
                           requests, outcome>>
       ELSE /\ idx' = idx + 1
            /\ content' = match_groups(doc)[1]
            /\ metadata' = split_eq(match_groups(doc)[2])
            /\ pc' = "parse"
            /\ UNCHANGED <<entry, calls, chatbot, docs, documents, metadata_dict, counter,
                           markdown_documents, respond_locals, requests, outcome>>

\* lines 95-99: the next record, split by the pattern
Match ==
    /\ pc = "for"
    /\ idx < Len(documents)
    /\ LET doc == documents[idx + 1] IN
       IF ~re_match(doc) THEN Raise("AttributeError")
       ELSE /\ idx' = idx + 1
            /\ content' = match_groups(doc)[1]
            /\ metadata' = split_eq(match_groups(doc)[2])
            /\ pc' = "parse"
            /\ UNCHANGED <<entry, calls, chatbot, docs, documents, metadata_dict, counter,
                           markdown_documents, respond_locals, requests, outcome>>

\* line 100 (LiteralError: the SyntaxError or ValueError of literal_eval)
ParseMetadata ==
    /\ pc = "parse"
    /\ LET r == literal_eval(metadata) IN
       IF ~r.ok THEN Raise("LiteralError")
       ELSE /\ metadata_dict' = r.val
            /\ pc' = "escapes"
            /\ UNCHANGED <<entry, calls, chatbot, docs, documents, idx, content, metadata,
                           counter, markdown_documents, respond_locals, requests, outcome>>

\* line 103
DecodeEscapes == Rewrite("escapes", "newlines", decode_escapes(content), "UnicodeDecodeError")

\* line 106
SubNewlines == Rewrite("newlines", "tokens", sub_escaped_newlines(content), "error")

\* line 108
SubTokens == Rewrite("tokens", "spaces", sub_special_tokens(content), "error")

\* line 110
CollapseSpaces == Rewrite("spaces", "unescape", collapse_spaces(content), "error")

\* line 113
Unescape == Rewrite("unescape", "redecode", html_unescape(content), "error")

\* line 116
Redecode == Rewrite("redecode", "repair", redecode(content), "UnicodeEncodeError")

\* lines 120-126
Repair == Rewrite("repair", "emit", repair_table(content), "error")

\* lines 128-135
Emit ==
    /\ pc = "emit"
    /\ IF ~has_key(metadata_dict, SOURCE) THEN Raise("KeyError")
       ELSE IF get_item(metadata_dict, SOURCE).t # "str" THEN Raise("TypeError")
       ELSE IF ~has_key(metadata_dict, PAGE) THEN Raise("KeyError")
       ELSE /\ markdown_documents' = markdown_documents
                    \o block(counter, content, get_item(metadata_dict, SOURCE).v,
                             get_item(metadata_dict, PAGE))
            /\ counter' = counter + 1
            /\ pc' = "for"
            /\ UNCHANGED <<entry, calls, chatbot, docs, documents, idx, content, metadata,
                           metadata_dict, respond_locals, requests, outcome>>

\* line 137, and line 45 when respond made the call
ReturnReferences ==
    /\ pc = "for"
    /\ idx = Len(documents)
    /\ DropCleanLocals
    /\ IF entry = "respond"
       THEN /\ references' = markdown_documents
            /\ pc' = "prompt"
            /\ UNCHANGED outcome
       ELSE /\ outcome' = Returned(markdown_documents)
            /\ pc' = "idle"
            /\ UNCHANGED references
    /\ UNCHANGED <<entry, calls, chatbot, docs, message, data_type, prompt, response, requests>>

CleanNext ==
    \/ CleanEntry
    \/ Match
    \/ ParseMetadata
    \/ DecodeEscapes
    \/ SubNewlines
    \/ SubTokens
    \/ CollapseSpaces
    \/ Unescape
    \/ Redecode
    \/ Repair
    \/ Emit
    \/ ReturnReferences

(***************************************************************************)
(* respond, lines 22-65.  The vector store and the completion endpoint are *)
(* outside the repository: a search returns some list of records or        *)
(* raises, a completion returns some answer or raises.                     *)
(***************************************************************************)
MaxCalls == 2
MaxRetrieved == 1

\* q1
MSG_Q1 == <<113, 49>>
\* q2
MSG_Q2 == <<113, 50>>
\* A
ANSWER_A == <<65>>
\* B
ANSWER_B == <<66>>
\* {'source': 'p.pdf', 'page': 3}
META_FLAT ==
    <<123, 39, 115, 111, 117, 114, 99, 101, 39, 58, 32, 39, 112, 46, 112, 100,
      102, 39, 44, 32, 39, 112, 97, 103, 101, 39, 58, 32, 51, 125>>
\* {'source': 'd/p.pdf', 'page': '12'}
META_ONE ==
    <<123, 39, 115, 111, 117, 114, 99, 101, 39, 58, 32, 39, 100, 47, 112, 46,
      112, 100, 102, 39, 44, 32, 39, 112, 97, 103, 101, 39, 58, 32, 39, 49,
      50, 39, 125>>
\* {'source': '/a/b/q.pdf', 'page': 10}
META_DEEP ==
    <<123, 39, 115, 111, 117, 114, 99, 101, 39, 58, 32, 39, 47, 97, 47, 98,
      47, 113, 46, 112, 100, 102, 39, 44, 32, 39, 112, 97, 103, 101, 39, 58,
      32, 49, 48, 125>>
\* {'source': 'd/', 'page': 0}
META_SLASH ==
    <<123, 39, 115, 111, 117, 114, 99, 101, 39, 58, 32, 39, 100, 47, 39, 44,
      32, 39, 112, 97, 103, 101, 39, 58, 32, 48, 125>>
\* {'source': 'p.pdf'}
META_NO_PAGE ==
    <<123, 39, 115, 111, 117, 114, 99, 101, 39, 58, 32, 39, 112, 46, 112, 100,
      102, 39, 125>>
\* {'page': 3}
META_NO_SOURCE == <<123, 39, 112, 97, 103, 101, 39, 58, 32, 51, 125>>
\* {'source': p.pdf, 'page': 3}
META_NOT_LITERAL ==
    <<123, 39, 115, 111, 117, 114, 99, 101, 39, 58, 32, 112, 46, 112, 100, 102,
      44, 32, 39, 112, 97, 103, 101, 39, 58, 32, 51, 125>>
\* {'source': 7, 'page': 3}
META_INT_SOURCE ==
    <<123, 39, 115, 111, 117, 114, 99, 101, 39, 58, 32, 55, 44, 32, 39, 112,
      97, 103, 101, 39, 58, 32, 51, 125>>
\*  metadata=
METADATA_EQ == <<32, 109, 101, 116, 97, 100, 97, 116, 97, 61>>
\* a
TEXT_A == <<97>>
\* b  c
TEXT_BC == <<98, 32, 32, 99>>
\* &euro;
TEXT_EURO == <<38, 101, 117, 114, 111, 59>>

\* the text of a record with the given content and metadata text
record(c, m) == PAGE_CONTENT \o c \o METADATA_EQ \o m

\* the texts of at most n pieces of P, and the lists of at most n members of S
RECURSIVE Texts(_, _)
Texts(P, n) ==
    IF n = 0 THEN {<<>>}
    ELSE Texts(P, n - 1) \cup {x \o q : x \in Texts(P, n - 1), q \in P}

RECURSIVE Lists(_, _)
Lists(S, n) ==
    IF n = 0 THEN {<<>>}
    ELSE Lists(S, n - 1) \cup {Append(l, x) : l \in Lists(S, n - 1), x \in S}

Messages == {MSG_Q1, MSG_Q2}
Answers == {ANSWER_A, ANSWER_B}
DataTypes == {"Preprocessed", "Uploaded", "Other"}
\* what the vector store holds: two well-formed records and a malformed one
Stored == {record(TEXT_A, META_ONE), record(TEXT_BC, META_FLAT), PAGE_CONTENT \o TEXT_A}

\* lines 22-34: a call of respond
Respond ==
    /\ pc = "idle"
    /\ calls < MaxCalls
    /\ \E m \in Messages, dt \in DataTypes :
        /\ message' = m
        /\ data_type' = dt
    /\ calls' = calls + 1
    /\ entry' = "respond"
    /\ outcome' = Running
    /\ requests' = <<>>
    /\ pc' = "search"
    /\ UNCHANGED <<chatbot, docs, clean_locals, references, prompt, response>>

\* lines 35-43: vectordb is bound for two values of data_type only
SimilaritySearch ==
    /\ pc = "search"
    /\ IF data_type \notin {"Preprocessed", "Uploaded"} THEN Raise("UnboundLocalError")
       ELSE \E d \in Lists(Stored, MaxRetrieved) :
            /\ docs' = d
            /\ pc' = "clean_entry"
            /\ UNCHANGED <<entry, calls, chatbot, clean_locals, respond_locals, requests, outcome>>

\* lines 37-43: the vector store raises
SearchFails ==
    /\ pc = "search"
    /\ data_type \in {"Preprocessed", "Uploaded"}
    /\ Raise("RetrieverError")

\* lines 44, 46-51
BuildPrompt ==
    /\ pc = "prompt"
    /\ prompt' = prompt_of(references, message)
    /\ pc' = "completion"
    /\ UNCHANGED <<entry, calls, chatbot, docs, clean_locals, message, data_type, references,
                   response, requests, outcome>>

\* lines 52-60
Complete ==
    /\ pc = "completion"
    /\ \E a \in Answers : response' = a
    /\ requests' = Append(requests, prompt)
    /\ pc' = "append"
    /\ UNCHANGED <<entry, calls, chatbot, docs, clean_locals, message, data_type, references,
                   prompt, outcome>>

\* lines 52-60: the endpoint raises
CompletionFails ==
    /\ pc = "completion"
    /\ requests' = Append(requests, prompt)
    /\ pc' = "idle"
    /\ outcome' = Raised("CompletionError", pc)
    /\ DropRespondLocals
    /\ UNCHANGED <<entry, calls, chatbot, docs, clean_locals>>

\* a history that keeps the last exchange alone
ReplaceHistory ==
    /\ pc = "append"
    /\ chatbot' = <<(<<message, response>>)>>
    /\ pc' = "return"
    /\ UNCHANGED <<entry, calls, docs, clean_locals, respond_locals, requests, outcome>>

\* lines 61-63
AppendHistory ==
    /\ pc = "append"
    /\ chatbot' = Append(chatbot, <<message, response>>)
    /\ pc' = "return"
    /\ UNCHANGED <<entry, calls, docs, clean_locals, respond_locals, requests, outcome>>

\* line 65
Return ==
    /\ pc = "return"
    /\ outcome' = Returned([text |-> <<>>, chatbot |-> chatbot, references |-> references])
    /\ pc' = "idle"
    /\ DropRespondLocals
    /\ UNCHANGED <<entry, calls, chatbot, docs, clean_locals, requests>>

RespondNext ==
    \/ Respond
    \/ SimilaritySearch
    \/ SearchFails
    \/ BuildPrompt
    \/ Complete
    \/ CompletionFails
    \/ AppendHistory
    \/ Return

\* between calls, nothing retrieved yet
Idle ==
    /\ calls = 0
    /\ chatbot = <<>>
    /\ message = None
    /\ data_type = "Preprocessed"
    /\ documents = <<>>
    /\ idx = 0
    /\ content = None
    /\ metadata = None
    /\ metadata_dict = NoDict
    /\ counter = 0
    /\ markdown_documents = None
    /\ references = None
    /\ prompt = None
    /\ response = None
    /\ requests = <<>>
    /\ outcome = Running

Init ==
    /\ pc = "idle"
    /\ entry = "respond"
    /\ docs = <<>>
    /\ Idle

Next == RespondNext \/ CleanNext

Spec == Init /\ [][Next]_vars

(***************************************************************************)
(* clean_references called on its own, on lists of records                 *)
(***************************************************************************)
MaxDocs == 2

RecordPool ==
    {record(TEXT_A, m) : m \in {META_FLAT, META_ONE, META_DEEP, META_SLASH, META_NO_PAGE,
                                META_NO_SOURCE, META_NOT_LITERAL, META_INT_SOURCE}}
    \cup {record(TEXT_BC, META_FLAT), record(TEXT_EURO, META_FLAT), PAGE_CONTENT \o TEXT_A}

\* clean_references is called with the records d
Called(d) ==
    /\ pc = "clean_entry"
    /\ entry = "clean_references"
    /\ docs = d
    /\ Idle

InitRefs == \E d \in Lists(RecordPool, MaxDocs) : Called(d)

SpecRefs == InitRefs /\ [][CleanNext]_vars

(***************************************************************************)
(* clean_references on one record "page_content=<content> metadata={<dict- *)
(* text>}", with and without the closing brace, content and dict-text      *)
(* written with the pieces below                                           *)
(***************************************************************************)
MaxSplitParts == 2

\* 'source': 'p.pdf', 'page': 3
DICT_ITEMS ==
    <<39, 115, 111, 117, 114, 99, 101, 39, 58, 32, 39, 112, 46, 112, 100, 102,
      39, 44, 32, 39, 112, 97, 103, 101, 39, 58, 32, 51>>
\* , 'k': '{}'
DICT_BRACES == <<44, 32, 39, 107, 39, 58, 32, 39, 123, 125, 39>>

SplitContentPieces == {TEXT_A, <<123>>, <<125>>, METADATA_EQ}
SplitDictPieces == {DICT_ITEMS, DICT_BRACES, METADATA_OPEN, <<125>>}

SplitRecords ==
    {PAGE_CONTENT \o c \o METADATA_OPEN \o d \o close :
        c \in Texts(SplitContentPieces, MaxSplitParts),
        d \in Texts(SplitDictPieces, MaxSplitParts),
        close \in {<<125>>, <<>>}}

InitSplit == \E r \in SplitRecords : Called(<<r>>)

SpecSplit == InitSplit /\ [][CleanNext]_vars

(***************************************************************************)
(* clean_references on one well-formed record, its content written with    *)
(* the pieces below                                                        *)
(***************************************************************************)
MaxParts == 3

\* backslash, n
ESCAPED_NEWLINE == <<92, 110>>
\* &lt;EOS&gt;
ENTITY_EOS == <<38, 108, 116, 59, 69, 79, 83, 38, 103, 116, 59>>
\* &#32;
ENTITY_SPACE == <<38, 35, 51, 50, 59>>
\* &amp;
ENTITY_AMP == <<38, 97, 109, 112, 59>>
\* backslash, u2208
ESCAPED_ISIN == <<92, 117, 50, 50, 48, 56>>
\* backslash, xff
ESCAPED_FF == <<92, 120, 102, 102>>
\* e with acute, U+00E9
E_ACUTE == <<233>>
\* a with grave, U+00E0
A_GRAVE == <<224>>
\* element-of, U+2208
ISIN == <<8712>>

ContentPieces ==
    {EOS, PAD, <<32>>, TEXT_A, ESCAPED_NEWLINE, ENTITY_EOS, ENTITY_SPACE, ENTITY_AMP, TEXT_EURO,
     ESCAPED_ISIN, ESCAPED_FF, E_ACUTE, A_GRAVE, ISIN}

InitContent == \E c \in Texts(ContentPieces, MaxParts) : Called(<<record(c, META_FLAT)>>)

SpecContent == InitContent /\ [][CleanNext]_vars

(***************************************************************************)
(* clean_references on one well-formed record whose content is written     *)
(* with the characters of the corrupted sequences of lines 120-126         *)
(***************************************************************************)
MaxTableParts == 3

\* U+00E2 U+0080 U+0093, read '-'
CORRUPT_DASH == <<226, 128, 147>>
\* U+00E2 U+0088 U+0088, read element-of
CORRUPT_ISIN == <<226, 136, 136>>
\* U+00C3 U+0097, read multiplication sign
CORRUPT_TIMES == <<195, 151>>
\* U+00EF U+00AC U+0081, read 'fi'
CORRUPT_FI == <<239, 172, 129>>
\* U+00C2 U+00B7, read middle dot
CORRUPT_MIDDOT == <<194, 183>>
\* U+00EF U+00AC U+0082, read 'fl'
CORRUPT_FL == <<239, 172, 130>>

TablePieces ==
    {<<194>>, <<183>>, <<226>>, <<136>>, <<195>>, <<151>>, TEXT_A,
     CORRUPT_DASH, CORRUPT_FI, CORRUPT_FL}

InitTable == \E c \in Texts(TablePieces, MaxTableParts) : Called(<<record(c, META_FLAT)>>)

SpecTable == InitTable /\ [][CleanNext]_vars

(***************************************************************************)
(* Properties                                                              *)
(***************************************************************************)
\* s ends with suf
EndsWith(s, suf) == Len(suf) <= Len(s) /\ SubSeq(s, Len(s) - Len(suf) + 1, Len(s)) = suf

\* number of places where pat occurs in s
CountSub(s, pat) == Cardinality({i \in 1..Len(s) : StartsAt(s, i, pat)})

\* the first place where pat occurs in s
FirstOccurrence(s, pat) == Min({i \in 1..Len(s) : StartsAt(s, i, pat)})

\* a call has ended
Ended == pc = "idle" /\ outcome.kind # "none"

\* the record just emitted: its block is the end of markdown_documents, and
\* the locals still hold its content and metadata
Emitted == pc = "for" /\ idx >= 1

\* the content of the record r after lines 103-126
Cleaned(c) ==
    repair_table(redecode(html_unescape(collapse_spaces(
        sub_special_tokens(sub_escaped_newlines(decode_escapes(c)))))))

\* the record text r matches the pattern, its metadata is a literal, and the
\* literal has the keys
Matches(r) == re_match(r \o <<10, 10>>)
MetadataOf(r) == literal_eval(split_eq(match_groups(r \o <<10, 10>>)[2]))
Malformed(r) ==
    \/ ~Matches(r)
    \/ ~MetadataOf(r).ok
    \/ ~has_key(MetadataOf(r).val, SOURCE)
    \/ ~has_key(MetadataOf(r).val, PAGE)
ValidRecord(r) == ~Malformed(r) /\ get_item(MetadataOf(r).val, SOURCE).t = "str"

\* the block the claim C1 gives the i-th record r
ExpectedBlock(i, r) ==
    LET c == match_groups(r \o <<10, 10>>)[1]
        d == MetadataOf(r).val
    IN  block(i, Cleaned(c), get_item(d, SOURCE).v, get_item(d, PAGE))

\* C1: for every list of N >= 0 valid records, clean_references returns the
\* concatenation, in input order, of the N blocks "Reference i:\n...", i = 1..N
\* (the empty string for N = 0).
C1_ValidRecordsGiveBlocks ==
    (Ended /\ \A i \in 1..Len(docs) : ValidRecord(docs[i]))
        => outcome = Returned(Concat([i \in 1..Len(docs) |-> ExpectedBlock(i, docs[i])]))

\* some record of the list is malformed
HasMalformed == \E i \in 1..Len(docs) : Malformed(docs[i])

\* C2: if any record of the list, at any position, does not match the pattern,
\* has metadata that is no literal, or lacks the key source or page, the call
\* never returns a string, and when it has ended it has raised an exception
\* (which carries no output).
C2_AllOrNothing ==
    HasMalformed =>
        /\ outcome.kind # "returned"
        /\ pc = "idle" => outcome.kind = "raised" /\ DOMAIN outcome = {"kind", "exc", "at"}

\* C2, its case: a malformed record after a valid one, and the call has raised
C2_Witness ==
    /\ Len(docs) = 2
    /\ docs[1] = record(TEXT_A, META_ONE)
    /\ Malformed(docs[2])
    /\ outcome.kind = "raised"

\* C3: the byte re-decode of line 116 never aborts the call, whatever content
\* reaches it: what cannot be repaired is dropped and the call goes on.
C3_RedecodeNeverAborts == ~(outcome.kind = "raised" /\ outcome.at = "redecode")

\* C4, as claimed: after the table of lines 120-126 no corrupted element-of
\* sequence is left, and applying the table to its result changes nothing.
C4_TableIdempotent ==
    pc = "emit" => ~HasSub(content, CORRUPT_ISIN) /\ repair_table(content) = content

\* number of times the character c occurs in s
Count(s, c) == Cardinality({i \in 1..Len(s) : s[i] = c})

\* the step of the table: it rewrites every occurrence of the corrupted
\* element-of sequence into the element-of symbol (none is left, each has
\* become one symbol, and its three characters are gone), and applying the
\* table to its result changes nothing when the content it was applied to
\* does not hold U+00C2 U+00C2 U+00B7.
C4_TableStep ==
    (pc = "repair" /\ pc' = "emit") =>
        /\ ~HasSub(content', CORRUPT_ISIN)
        /\ Count(content', 8712) = Count(content, 8712) + CountSub(content, CORRUPT_ISIN)
        /\ Count(content', 136) = Count(content, 136) - 2 * CountSub(content, CORRUPT_ISIN)
        /\ ~HasSub(content, <<194>> \o CORRUPT_MIDDOT) => repair_table(content') = content'

\* C4, amended: every step of the table from "repair" to "emit" rewrites each
\* corrupted element-of sequence into the symbol, and is idempotent on its
\* result unless the content held U+00C2 U+00C2 U+00B7.
C4_TableIdempotentAmended == [][C4_TableStep]_vars

\* C4, its case: the record held a corrupted element-of sequence, and the
\* table has made it the symbol
C4_Witness ==
    /\ pc = "emit"
    /\ HasSub(docs[1], CORRUPT_ISIN)
    /\ HasSub(content, ISIN)

\* the final segment of the path p: the end of p after its last '/'
LastSegment(p) ==
    CHOOSE s \in {Tail_(p, k) : k \in 1..(Len(p) + 1)} :
        /\ ~HasSub(s, <<47>>)
        /\ Len(s) = Len(p) \/ p[Len(p) - Len(s)] = 47

\* "http://localhost:8000/"
LOCALHOST ==
    <<104, 116, 116, 112, 58, 47, 47, 108, 111, 99, 97, 108, 104, 111, 115, 116,
      58, 56, 48, 48, 48, 47>>

\* C5: the block of every record names the final segment of metadata.source
\* as Filename and links to 'http://localhost:8000/' followed by that segment,
\* whatever the number of directories in source.
C5_BasenameInBlock ==
    Emitted =>
        LET seg == LastSegment(get_item(metadata_dict, SOURCE).v) IN
        EndsWith(markdown_documents,
                 content \o <<10, 10>> \o FILENAME \o seg \o BAR \o PAGE_NUMBER
                 \o to_str(get_item(metadata_dict, PAGE)) \o BAR
                 \o VIEW_PDF \o LOCALHOST \o seg \o <<41, 10, 10>>)

\* "(http://localhost:8000/q.pdf)\n\n"
LINK_Q ==
    <<40, 104, 116, 116, 112, 58, 47, 47, 108, 111, 99, 97, 108, 104, 111, 115,
      116, 58, 56, 48, 48, 48, 47, 113, 46, 112, 100, 102, 41, 10, 10>>

\* C5, its case: a source without directory, then one with three
C5_Witness ==
    /\ Emitted
    /\ docs = <<record(TEXT_A, META_FLAT), record(TEXT_A, META_DEEP)>>
    /\ idx = 2
    /\ EndsWith(markdown_documents, LINK_Q)

\* an end-of-sequence marker followed, after optional whitespace, by the
\* padding marker
HasTokenPair(s) ==
    \E i \in 1..Len(s) : StartsAt(s, i, EOS) /\ StartsAt(s, SkipSpace(s, i + Len(EOS)), PAD)

\* C6: the cleaned content of an emitted block holds no end-of-sequence
\* marker followed, after optional whitespace, by the padding marker.
C6_NoTokenPair == Emitted => ~HasTokenPair(content)

\* the record text r is "page_content=<content> metadata={<dict-text>}" on one
\* line, <content> being what stands before the first " metadata={"
OfForm(r) ==
    /\ StartsAt(r, 1, PAGE_CONTENT)
    /\ HasSub(r, METADATA_OPEN)
    /\ FirstOccurrence(r, METADATA_OPEN) + Len(METADATA_OPEN) <= Len(r)
    /\ r[Len(r)] = 125
    /\ NoNewline(r, 1, Len(r))

\* C7: for every record text of that form the pattern matches, and lines 97-99
\* leave <content> in content and "{<dict-text>}" in metadata: the record is
\* split at its first " metadata={".
C7_SplitAtFirst ==
    OfForm(docs[1]) =>
        LET r == docs[1]
            i == FirstOccurrence(r, METADATA_OPEN)
        IN  /\ ~(outcome.kind = "raised" /\ outcome.at = "for")
            /\ pc = "parse" =>
                /\ content = SubSeq(r, Len(PAGE_CONTENT) + 1, i - 1)
                /\ metadata = SubSeq(r, i + Len(METADATA_OPEN) - 1, Len(r))

\* C7, its case: a closing brace in the content and " metadata={" again in
\* the dict-text
C7_Witness ==
    /\ pc = "parse"
    /\ OfForm(docs[1])
    /\ HasSub(content, <<125>>)
    /\ HasSub(metadata, METADATA_OPEN)

\* no whitespace at either end of s, none after another, no newline
Normalized(s) ==
    /\ s # <<>> => ~IsSpace(s[1]) /\ ~IsSpace(s[Len(s)])
    /\ \A i \in 1..(Len(s) - 1) : ~(IsSpace(s[i]) /\ IsSpace(s[i + 1]))
    /\ \A i \in 1..Len(s) : s[i] # 10

\* C8: the cleaned content of an emitted block is whitespace-normalized.
C8_CleanedIsNormalized == Emitted => Normalized(content)

\* the k-th character of s stands in a corrupted sequence of the table
InCorrupted(s, k) ==
    \E pat \in {CORRUPT_DASH, CORRUPT_ISIN, CORRUPT_TIMES, CORRUPT_FI, CORRUPT_MIDDOT, CORRUPT_FL} :
        \E i \in 1..Len(s) : StartsAt(s, i, pat) /\ k \in i..(i + Len(pat) - 1)

\* C9: every non-ASCII character of the raw content that is no whitespace and
\* stands in no corrupted sequence is in the cleaned content of the block.
C9_NonAsciiSurvives ==
    Emitted =>
        LET raw == match_groups(documents[idx])[1] IN
        \A k \in 1..Len(raw) :
            (raw[k] > 127 /\ ~IsSpace(raw[k]) /\ ~InCorrupted(raw, k))
                => \E j \in 1..Len(content) : content[j] = raw[k]

\* the positions of clean_references
CleanPcs ==
    {"clean_entry", "for", "parse", "escapes", "newlines", "tokens", "spaces", "unescape",
     "redecode", "repair", "emit"}

\* one step of respond: a call goes retrieve, format, completion, append,
\* return; the Completion Service is called in the completion step alone, with the
\* prompt that holds the references; the history changes by the append alone,
\* which adds the pair (message, answer) at its end; a call that raises leaves
\* the history as it was, and one that raises while formatting has sent
\* nothing to the Completion Service; the call returns the history and the
\* references that stand in the prompt it sent.
C10_Step ==
    /\ pc = "idle" => pc' = "search" /\ requests' = <<>>
    /\ pc = "search" => pc' \in {"clean_entry", "idle"}
    /\ pc \in CleanPcs => pc' \in CleanPcs \cup {"prompt", "idle"}
    /\ pc = "prompt" => pc' = "completion"
    /\ pc = "completion" => pc' \in {"append", "idle"}
    /\ pc = "append" => pc' = "return"
    /\ pc = "return" => pc' = "idle" /\ outcome'.kind = "returned"
    /\ (pc # "idle" /\ requests' # requests) =>
            pc = "completion" /\ requests' = <<prompt_of(references, message)>>
    /\ chatbot' # chatbot =>
            /\ pc = "append"
            /\ Len(requests) = 1
            /\ chatbot' = chatbot \o <<(<<message, response>>)>>
    /\ outcome'.kind = "raised" => chatbot' = chatbot
    /\ (outcome'.kind = "raised" /\ pc \in CleanPcs \cup {"search"}) => requests' = <<>>
    /\ (pc = "return" /\ outcome'.kind = "returned") =>
            /\ outcome'.value.chatbot = chatbot
            /\ chatbot # <<>> /\ chatbot[Len(chatbot)] = <<message, response>>
            /\ requests = <<prompt_of(outcome'.value.references, message)>>

\* C10: every step of respond keeps the order retrieve, format, completion,
\* append, return; the history grows by the pair (message, answer) in the
\* append alone; a call that raises leaves the history unchanged.
C10_RespondOrder == [][C10_Step]_vars

\* C10, its case: of two calls one has answered and the other has raised
\* while formatting
C10_Witness ==
    /\ calls = 2
    /\ Len(chatbot) = 1
    /\ outcome.kind = "raised"
    /\ outcome.at = "for"

=============================================================================
